---- MODULE Spec2Model ----
(***************************************************************************)
(* Model of bevy_tileset_map's TilePlacer (src/src/placement.rs) and of    *)
(* the stage order set up by TilesetMapPlugin (src/src/plugin.rs).         *)
(*                                                                         *)
(* The tile store has two layers, as in the code:                          *)
(*   - tiles    : the chunk's slot table, read and written immediately by  *)
(*                map_query.get_tile_entity / set_tile / despawn_tile;     *)
(*   - world    : the components of the entities, read by self.query and   *)
(*                self.auto_query.  Every self.commands... call only       *)
(*                queues a command; the queue is applied to world when the *)
(*                stage that runs the placement systems ends.  No call     *)
(*                reads the queue, so it is kept as its outcome: commands  *)
(*                is the world that applying the queue in order yields.    *)
(*                                                                         *)
(* The layer is filled through a LayerBuilder in the startup stage         *)
(* (add_to_layer) and built when that stage ends; from then on the systems *)
(* of every tick call the policies, remove and update.                     *)
(***************************************************************************)
EXTENDS Integers, Sequences, FiniteSets, TLC

\* ------------------------------------------------------------------ bounds
MaxEntities == 4
MaxEvents == 2

Entities == 1..MaxEntities
NoEntity == 0

\* ------------------------------------------------------------- coordinates
\* TileCoord { pos, map_id, layer_id }
TileCoord(p, m, l) == [pos |-> p, map_id |-> m, layer_id |-> l]

\* The map holds one map (id 0) with one layer (id 0) of two cells.
InBounds == {TileCoord(<<0, 0>>, 0, 0), TileCoord(<<1, 0>>, 0, 0)}
\* A coordinate of a map that does not exist: every store call fails on it.
OutOfBounds == TileCoord(<<0, 0>>, 1, 0)
Coords == InBounds \cup {OutOfBounds}

\* TileParent { map_id, layer_id } given to a tile spawned at c
TileParent(c) == [map_id |-> c.map_id, layer_id |-> c.layer_id]

\* ---------------------------------------------------------------- registry
\* TileId { tileset_id, group_id, variant }
TileId(t, g, v) == [tileset_id |-> t, group_id |-> g, variant |-> v]
NoId == TileId(0, 0, 0)

Standard(i) == [kind |-> "Standard", start |-> i, end |-> i, speed |-> 0]
Animated(s, e, sp) == [kind |-> "Animated", start |-> s, end |-> e, speed |-> sp]

\* The registered tilesets and their tiles (Assets<Tileset>).  Tileset 1 and
\* tileset 2 both use texture index 0, as every tileset numbers the textures
\* of its own atlas from 0.
A1 == TileId(1, 1, 0)
A2 == TileId(1, 1, 1)
C1d == TileId(1, 2, 0)
X1 == TileId(2, 1, 0)
\* An identity of a tileset that is not registered
U1 == TileId(3, 1, 0)
\* An identity of a registered tileset that does not resolve in it
V1 == TileId(1, 9, 0)

TilesetIds == {1, 2}
TileTable ==
  { [id |-> A1, index |-> Standard(0), is_auto |-> FALSE],
    [id |-> A2, index |-> Standard(1), is_auto |-> FALSE],
    [id |-> C1d, index |-> Animated(2, 3, 1), is_auto |-> FALSE],
    [id |-> X1, index |-> Standard(0), is_auto |-> TRUE] }

TileIds == {A1, A2, C1d, X1, U1, V1}

\* TileId::eq_tile_group
eq_tile_group(a, b) == a.group_id = b.group_id /\ a.tileset_id = b.tileset_id

\* Tileset::select_tile_by_id : the rows of the table that id resolves to
select_tile_by_id(id) == {r \in TileTable : r.id = id}

\* Tileset::get_tile_id : reverse lookup of a texture index in tileset ts
TileIdsOfIndex(ts, tex) ==
  {r.id : r \in {q \in TileTable : /\ q.id.tileset_id = ts
                                   /\ q.index.start <= tex
                                   /\ tex <= q.index.end}}
get_tile_id(ts, tex) ==
  IF TileIdsOfIndex(ts, tex) = {} THEN NoId
  ELSE CHOOSE i \in TileIdsOfIndex(ts, tex) : TRUE

\* TileIndex::base_index
base_index(index) == index.start

\* ------------------------------------------------------------------- state
VARIABLES
  autoTile,   \* the "auto-tile" feature of the build
  stage,      \* the stage of the tick that is running
  tiles,      \* slot table of the layer (of its LayerBuilder until it is
              \* built, of its chunk afterwards): coordinate -> entity or
              \* NoEntity
  world,      \* components of the live entities
  commands,   \* the world as the queued Commands leave it at stage end
  events,     \* RemoveAutoTileEvents sent in this tick
  read,       \* how many of them the event reader has consumed
  call        \* the call that has just returned, until its caller resumes

vars == <<autoTile, stage, tiles, world, commands, events, read,
          call>>

NoAnim == [on |-> FALSE, start |-> 0, end |-> 0, speed |-> 0]
NoAuto == [on |-> FALSE, group_id |-> 0, tileset_id |-> 0]
GPUAnimated(s, e, sp) == [on |-> TRUE, start |-> s, end |-> e, speed |-> sp]
AutoTileId(g, t) == [on |-> TRUE, group_id |-> g, tileset_id |-> t]

\* An entity that is not in the world
Dead == [alive |-> FALSE, pos |-> OutOfBounds, tex |-> 0, anim |-> NoAnim,
         tileset |-> 0, auto |-> NoAuto]

\* One queued command.  op is one of Spawn, InsertTile, InsertAnim,
\* RemoveAnim, InsertTileset, InsertAuto, RemoveAuto, Despawn.
Cmd(op, e) == [op |-> op, entity |-> e, pos |-> OutOfBounds, tex |-> 0,
               anim |-> NoAnim, tileset |-> 0, auto |-> NoAuto]

\* RemoveAutoTileEvent { entity, pos, parent, auto_id }
RemoveAutoTileEvent(e, p, par, a) ==
  [entity |-> e, pos |-> p, parent |-> par, auto_id |-> a]

\* ----------------------------------------------------------------- results
NoOld == [present |-> FALSE, entity |-> NoEntity, has_id |-> FALSE, id |-> NoId]
OldTile(e, id) == [present |-> TRUE, entity |-> e, has_id |-> id # NoId, id |-> id]

NoResult == [kind |-> "None", err |-> "", old_tile |-> NoOld,
             entity |-> NoEntity, id |-> NoId, existing |-> NoOld,
             pos |-> OutOfBounds, tileset |-> 0]
\* PlacedTile::Added { old_tile, new_tile: (entity, id) }
Added(old, e, id) == [NoResult EXCEPT !.kind = "Added", !.old_tile = old,
                                      !.entity = e, !.id = id]
\* PlacedTile::Removed { old_tile }
Removed(old) == [NoResult EXCEPT !.kind = "Removed", !.old_tile = old]
\* Ok(()) of remove and update
OkUnit == [NoResult EXCEPT !.kind = "Ok"]
\* TilePlacementError::TileAlreadyExists { new, existing, pos }
TileAlreadyExists(new, existingId, pos) ==
  [NoResult EXCEPT !.kind = "Err", !.err = "TileAlreadyExists", !.id = new,
                   !.existing = [present |-> existingId # NoId,
                                 entity |-> NoEntity,
                                 has_id |-> existingId # NoId,
                                 id |-> existingId],
                   !.pos = pos]
\* TilePlacementError::InvalidTileset(tileset_id)
InvalidTileset(ts) == [NoResult EXCEPT !.kind = "Err", !.err = "InvalidTileset",
                                       !.tileset = ts]
\* TilePlacementError::InvalidTile(id)
InvalidTile(id) == [NoResult EXCEPT !.kind = "Err", !.err = "InvalidTile",
                                    !.id = id]
\* TilePlacementError::MapError(err)
MapError == [NoResult EXCEPT !.kind = "Err", !.err = "MapError"]

IsErr(r) == r.kind = "Err"

\* ------------------------------------------------- the part a call works on
\* A call reads world and works on the slot table, the command queue and the
\* event queue; st is the value of the three while the call runs.
St == [tiles |-> tiles, commands |-> commands, events |-> events]

\* A call that has returned: the method, its arguments, its return value and
\* the store it was called on
CallOf(op, id, c, entity, r) ==
  [op |-> op, id |-> id, pos |-> c, entity |-> entity, res |-> r.res,
   pre |-> St]
\* No call has returned since the caller resumed
NoCall ==
  [op |-> "none", id |-> NoId, pos |-> OutOfBounds, entity |-> NoEntity,
   res |-> NoResult,
   pre |-> [tiles |-> [c \in InBounds |-> NoEntity],
            commands |-> [e \in Entities |-> Dead],
            events |-> <<>>]]

\* Entity ids that are live, reserved, or still named by a command or event
Used(st) ==
  {e \in Entities : world[e].alive \/ st.commands[e].alive}
    \cup {st.tiles[c] : c \in InBounds}
    \cup {st.events[i].entity : i \in 1..Len(st.events)}

\* Commands::spawn reserves an id that no live or reserved entity has.  Which
\* one is up to the allocator: the model takes the least free id among the
\* ids whose remainder is the cell's column, so that handles are never shared
\* between cells.
Pool(c) == {e \in Entities : e % Cardinality(InBounds) = c.pos[1]}
FreeEntities(st, c) == Pool(c) \ Used(st)
FreshEntity(st, c) ==
  CHOOSE e \in FreeEntities(st, c) : \A f \in FreeEntities(st, c) : e <= f

\* ------------------------------------------------------- applying commands
\* One command applied to the world.  A command for an entity that is not in
\* the world by then changes nothing (calls never queue one: see CallUpdate).
ApplyCmd(w, cmd) ==
  LET e == cmd.entity IN
  IF cmd.op = "Spawn"
    THEN [w EXCEPT ![e] = [Dead EXCEPT !.alive = TRUE, !.pos = cmd.pos,
                                       !.tex = cmd.tex]]
  ELSE IF ~w[e].alive THEN w
  ELSE IF cmd.op = "InsertTile" THEN [w EXCEPT ![e].tex = cmd.tex]
  ELSE IF cmd.op = "InsertAnim" THEN [w EXCEPT ![e].anim = cmd.anim]
  ELSE IF cmd.op = "RemoveAnim" THEN [w EXCEPT ![e].anim = NoAnim]
  ELSE IF cmd.op = "InsertTileset" THEN [w EXCEPT ![e].tileset = cmd.tileset]
  ELSE IF cmd.op = "InsertAuto" THEN [w EXCEPT ![e].auto = cmd.auto]
  ELSE IF cmd.op = "RemoveAuto" THEN [w EXCEPT ![e].auto = NoAuto]
  ELSE [w EXCEPT ![e] = Dead]

\* self.commands... : the command is queued behind the ones queued before
Queue(st, cmd) == [st EXCEPT !.commands = ApplyCmd(@, cmd)]

\* ---------------------------------------------------------- the tile store
\* MapQuery::get_tile_entity ; NoEntity stands for Err(MapTileError)
get_tile_entity(st, c) == IF c \in InBounds THEN st.tiles[c] ELSE NoEntity

\* MapQuery::set_tile : rewrites the Tile of the entity in the slot, or
\* spawns an entity (Tile, TileParent, TilePos) and puts it in the slot
set_tile(st, c, tex) ==
  IF c \notin InBounds
    THEN [st |-> st, ok |-> FALSE, entity |-> NoEntity]
  ELSE IF st.tiles[c] # NoEntity
    THEN [st |-> Queue(st, [Cmd("InsertTile", st.tiles[c]) EXCEPT !.tex = tex]),
          ok |-> TRUE, entity |-> st.tiles[c]]
  ELSE LET e == FreshEntity(st, c) IN
         [st |-> [Queue(st, [Cmd("Spawn", e) EXCEPT !.tex = tex, !.pos = c])
                    EXCEPT !.tiles[c] = e],
          ok |-> TRUE, entity |-> e]

\* MapQuery::despawn_tile : empties the slot and queues the despawn
despawn_tile(st, c) ==
  IF c \notin InBounds \/ get_tile_entity(st, c) = NoEntity
    THEN [st |-> st, ok |-> FALSE]
  ELSE [st |-> [Queue(st, Cmd("Despawn", st.tiles[c]))
                  EXCEPT !.tiles[c] = NoEntity],
        ok |-> TRUE]

\* ------------------------------------------------------ identity resolution
\* get_tileset : Ok iff the tileset of the id is registered
get_tileset(id) == id.tileset_id \in TilesetIds

\* get_tile_index : NoIndex stands for Err(InvalidTile)
NoIndex == [kind |-> "None", start |-> 0, end |-> 0, speed |-> 0]
get_tile_index(id) ==
  IF select_tile_by_id(id) = {} THEN NoIndex
  ELSE (CHOOSE r \in select_tile_by_id(id) : TRUE).index

\* get_tile_data(id).is_auto(), FALSE when the id does not resolve
get_tile_data(id) ==
  IF ~get_tileset(id) \/ select_tile_by_id(id) = {} THEN FALSE
  ELSE (CHOOSE r \in select_tile_by_id(id) : TRUE).is_auto

\* -------------------------------------------------------- occupancy lookup
NoExisting == [found |-> FALSE, entity |-> NoEntity, id |-> NoId,
               texture_index |-> 0, is_animated |-> FALSE, is_auto |-> FALSE]

\* get_existing : the slot's entity, if self.query finds it in the world,
\* with the id that its texture index has in the tileset of tile_id
get_existing(st, tile_id, c) ==
  LET entity == get_tile_entity(st, c) IN
  IF entity = NoEntity \/ ~world[entity].alive THEN NoExisting
  ELSE [found |-> TRUE,
        entity |-> entity,
        id |-> IF get_tileset(tile_id)
                 THEN get_tile_id(tile_id.tileset_id, world[entity].tex)
                 ELSE NoId,
        texture_index |-> world[entity].tex,
        is_animated |-> world[entity].anim.on,
        is_auto |-> autoTile /\ world[entity].auto.on]

\* ------------------------------------------------------ auto tile handling
\* try_remove_auto_tile : sends the event iff auto_query finds the entity
try_remove_auto_tile(st, entity) ==
  IF entity # NoEntity /\ world[entity].alive /\ world[entity].auto.on
    THEN [st EXCEPT !.events =
            Append(@, RemoveAutoTileEvent(entity, world[entity].pos,
                                          TileParent(world[entity].pos),
                                          world[entity].auto))]
    ELSE st

\* apply_auto_tile that leaves the AutoTileId of a tile that is no auto tile
apply_auto_tile_keep_link(st, id, tileset_id, entity) ==
  IF get_tile_data(id)
    THEN Queue(st, [Cmd("InsertAuto", entity)
                      EXCEPT !.auto = AutoTileId(id.group_id, tileset_id)])
    ELSE try_remove_auto_tile(st, entity)

\* apply_auto_tile
apply_auto_tile(st, id, tileset_id, entity) ==
  IF get_tile_data(id)
    THEN Queue(st, [Cmd("InsertAuto", entity)
                      EXCEPT !.auto = AutoTileId(id.group_id, tileset_id)])
    ELSE try_remove_auto_tile(Queue(st, Cmd("RemoveAuto", entity)), entity)

\* ----------------------------------------------------------------- removal
\* remove without its despawn_tile call: the entity stays in its slot
remove_without_despawn(st, c) ==
  LET entity == get_tile_entity(st, c)
      st1 == IF autoTile THEN try_remove_auto_tile(st, entity) ELSE st
  IN IF autoTile /\ entity = NoEntity THEN [st |-> st, res |-> MapError]
     ELSE [st |-> st1, res |-> OkUnit]

\* remove with the tile despawned before the entity is looked up for the
\* auto-tile event: the lookup finds the slot empty
remove_despawn_first(st, c) ==
  LET d == despawn_tile(st, c)
      entity == get_tile_entity(d.st, c)
      st1 == IF autoTile THEN try_remove_auto_tile(d.st, entity) ELSE d.st
  IN IF ~d.ok THEN [st |-> st, res |-> MapError]
     ELSE IF autoTile /\ entity = NoEntity THEN [st |-> st1, res |-> MapError]
     ELSE [st |-> st1, res |-> OkUnit]

\* remove that acts on the first position of the layer, whatever pos is
remove_at_origin(st, c) ==
  LET c0 == TileCoord(<<0, 0>>, c.map_id, c.layer_id)
      entity == get_tile_entity(st, c0)
      st1 == IF autoTile THEN try_remove_auto_tile(st, entity) ELSE st
      d == despawn_tile(st1, c0)
  IN IF autoTile /\ entity = NoEntity THEN [st |-> st, res |-> MapError]
     ELSE IF ~d.ok THEN [st |-> st1, res |-> MapError]
     ELSE [st |-> d.st, res |-> OkUnit]

\* remove
remove(st, c) ==
  LET entity == get_tile_entity(st, c)
      st1 == IF autoTile THEN try_remove_auto_tile(st, entity) ELSE st
      d == despawn_tile(st1, c)
  IN IF autoTile /\ entity = NoEntity THEN [st |-> st, res |-> MapError]
     ELSE IF ~d.ok THEN [st |-> st1, res |-> MapError]
     ELSE [st |-> d.st, res |-> OkUnit]

\* --------------------------------------------------------------- placement
\* The GPUAnimated command of an index
AnimCmd(entity, index) ==
  IF index.kind = "Standard" THEN Cmd("RemoveAnim", entity)
  ELSE [Cmd("InsertAnim", entity)
          EXCEPT !.anim = GPUAnimated(index.start, index.end, index.speed)]

\* place_unchecked that removes the occupant before it resolves the index of
\* the new tile
place_unchecked_remove_first(st, id, c) ==
  IF ~get_tileset(id) THEN [st |-> st, res |-> InvalidTileset(id.tileset_id)]
  ELSE
    LET existing == get_existing(st, id, c)
        rm == IF existing.found THEN remove(st, c)
              ELSE [st |-> st, res |-> OkUnit]
    IN IF IsErr(rm.res) THEN rm
       ELSE IF get_tile_index(id) = NoIndex
         THEN [st |-> rm.st, res |-> InvalidTile(id)]
       ELSE
         LET tile_index == get_tile_index(id)
             old_tile == IF existing.found
                           THEN OldTile(existing.entity, existing.id) ELSE NoOld
             s == set_tile(rm.st, c, base_index(tile_index))
         IN IF ~s.ok THEN [st |-> rm.st, res |-> MapError]
            ELSE
              LET st2 == Queue(s.st, AnimCmd(s.entity, tile_index))
                  st3 == Queue(st2, [Cmd("InsertTileset", s.entity)
                                       EXCEPT !.tileset = id.tileset_id])
                  st4 == IF autoTile
                           THEN apply_auto_tile(st3, id, id.tileset_id, s.entity)
                           ELSE st3
              IN [st |-> st4, res |-> Added(old_tile, s.entity, id)]

\* place_unchecked that looks up and removes the occupant of the position in
\* the first map, whatever map_id is
place_unchecked_first_map(st, id, c) ==
  IF ~get_tileset(id) THEN [st |-> st, res |-> InvalidTileset(id.tileset_id)]
  ELSE IF get_tile_index(id) = NoIndex THEN [st |-> st, res |-> InvalidTile(id)]
  ELSE
    LET tile_index == get_tile_index(id)
        c0 == TileCoord(c.pos, 0, c.layer_id)
        existing == get_existing(st, id, c0)
        rm == IF existing.found THEN remove(st, c0)
              ELSE [st |-> st, res |-> OkUnit]
        old_tile == IF existing.found
                      THEN OldTile(existing.entity, existing.id) ELSE NoOld
    IN IF IsErr(rm.res) THEN rm
       ELSE
         LET s == set_tile(rm.st, c, base_index(tile_index)) IN
         IF ~s.ok THEN [st |-> rm.st, res |-> MapError]
         ELSE
           LET st2 == Queue(s.st, AnimCmd(s.entity, tile_index))
               st3 == Queue(st2, [Cmd("InsertTileset", s.entity)
                                    EXCEPT !.tileset = id.tileset_id])
               st4 == IF autoTile
                        THEN apply_auto_tile(st3, id, id.tileset_id, s.entity)
                        ELSE st3
           IN [st |-> st4, res |-> Added(old_tile, s.entity, id)]

\* place_unchecked
place_unchecked(st, id, c) ==
  IF ~get_tileset(id) THEN [st |-> st, res |-> InvalidTileset(id.tileset_id)]
  ELSE IF get_tile_index(id) = NoIndex THEN [st |-> st, res |-> InvalidTile(id)]
  ELSE
    LET tile_index == get_tile_index(id)
        existing == get_existing(st, id, c)
        rm == IF existing.found THEN remove(st, c)
              ELSE [st |-> st, res |-> OkUnit]
        old_tile == IF existing.found
                      THEN OldTile(existing.entity, existing.id) ELSE NoOld
    IN IF IsErr(rm.res) THEN rm
       ELSE
         LET s == set_tile(rm.st, c, base_index(tile_index)) IN
         IF ~s.ok THEN [st |-> rm.st, res |-> MapError]
         ELSE
           LET st2 == Queue(s.st, AnimCmd(s.entity, tile_index))
               st3 == Queue(st2, [Cmd("InsertTileset", s.entity)
                                    EXCEPT !.tileset = id.tileset_id])
               st4 == IF autoTile
                        THEN apply_auto_tile(st3, id, id.tileset_id, s.entity)
                        ELSE st3
           IN [st |-> st4, res |-> Added(old_tile, s.entity, id)]

\* place that refuses an occupied coordinate, as try_place does
place_if_free(st, id, c) ==
  LET existing == get_existing(st, id, c) IN
  IF existing.found
    THEN [st |-> st, res |-> TileAlreadyExists(id, existing.id, c)]
    ELSE place_unchecked(st, id, c)

\* place
place(st, id, c) == place_unchecked(st, id, c)

\* try_place that reports the new identity as the existing one
try_place_reports_new(st, id, c) ==
  LET existing == get_existing(st, id, c) IN
  IF existing.found
    THEN [st |-> st, res |-> TileAlreadyExists(id, id, c)]
    ELSE place_unchecked(st, id, c)

\* try_place
try_place(st, id, c) ==
  LET existing == get_existing(st, id, c) IN
  IF existing.found
    THEN [st |-> st, res |-> TileAlreadyExists(id, existing.id, c)]
    ELSE place_unchecked(st, id, c)

\* replace
replace(st, id, c) ==
  LET existing == get_existing(st, id, c) IN
  IF existing.found /\ existing.id # NoId /\ eq_tile_group(existing.id, id)
    THEN [st |-> st, res |-> TileAlreadyExists(id, existing.id, c)]
    ELSE place_unchecked(st, id, c)

\* toggle_matching
toggle_matching(st, id, c) ==
  LET existing == get_existing(st, id, c) IN
  IF existing.found
    THEN IF existing.id # NoId /\ eq_tile_group(existing.id, id)
           THEN LET rm == remove(st, c) IN
                IF IsErr(rm.res) THEN rm
                ELSE [st |-> rm.st,
                      res |-> Removed(OldTile(existing.entity, existing.id))]
           ELSE [st |-> st, res |-> TileAlreadyExists(id, existing.id, c)]
    ELSE place_unchecked(st, id, c)

\* toggle
toggle(st, id, c) ==
  LET existing == get_existing(st, id, c) IN
  IF existing.found
    THEN LET rm == remove(st, c) IN
         IF IsErr(rm.res) THEN rm
         ELSE [st |-> rm.st,
               res |-> Removed(OldTile(existing.entity, existing.id))]
    ELSE place_unchecked(st, id, c)

\* update that sends the removal event also when the new tile is an auto tile
update_notify_always(st, id, entity) ==
  IF ~get_tileset(id) THEN [st |-> st, res |-> InvalidTileset(id.tileset_id)]
  ELSE IF get_tile_index(id) = NoIndex THEN [st |-> st, res |-> InvalidTile(id)]
  ELSE
    LET tile_index == get_tile_index(id)
        st1 == Queue(st, [Cmd("InsertTile", entity)
                            EXCEPT !.tex = base_index(tile_index)])
        st2 == Queue(st1, AnimCmd(entity, tile_index))
        st3 == Queue(st2, [Cmd("InsertTileset", entity)
                             EXCEPT !.tileset = id.tileset_id])
        st4 == IF autoTile /\ get_tile_data(id)
                 THEN try_remove_auto_tile(
                        apply_auto_tile(st3, id, id.tileset_id, entity), entity)
               ELSE IF autoTile
                 THEN apply_auto_tile(st3, id, id.tileset_id, entity)
               ELSE st3
    IN [st |-> st4, res |-> OkUnit]

\* update
update(st, id, entity) ==
  IF ~get_tileset(id) THEN [st |-> st, res |-> InvalidTileset(id.tileset_id)]
  ELSE IF get_tile_index(id) = NoIndex THEN [st |-> st, res |-> InvalidTile(id)]
  ELSE
    LET tile_index == get_tile_index(id)
        st1 == Queue(st, [Cmd("InsertTile", entity)
                            EXCEPT !.tex = base_index(tile_index)])
        st2 == Queue(st1, AnimCmd(entity, tile_index))
        st3 == Queue(st2, [Cmd("InsertTileset", entity)
                             EXCEPT !.tileset = id.tileset_id])
        st4 == IF autoTile
                 THEN apply_auto_tile(st3, id, id.tileset_id, entity)
                 ELSE st3
    IN [st |-> st4, res |-> OkUnit]

\* ------------------------------------------------------------ add_to_layer
\* LayerBuilder::set_tile followed by LayerBuilder::get_tile_entity : the
\* bundle of the position is overwritten; the entity of the position is
\* returned, and spawned first when the position has none.  The bundle is
\* inserted into the entity when the layer is built.
layer_builder_tile(st, c, tex) ==
  IF c \notin InBounds
    THEN [st |-> st, ok |-> FALSE, entity |-> NoEntity]
  ELSE IF st.tiles[c] # NoEntity
    THEN [st |-> Queue(st, [Cmd("InsertTile", st.tiles[c]) EXCEPT !.tex = tex]),
          ok |-> TRUE, entity |-> st.tiles[c]]
  ELSE LET e == FreshEntity(st, c) IN
         [st |-> [Queue(st, [Cmd("Spawn", e) EXCEPT !.tex = tex, !.pos = c])
                    EXCEPT !.tiles[c] = e],
          ok |-> TRUE, entity |-> e]

\* add_to_layer
add_to_layer(st, id, c) ==
  IF ~get_tileset(id) THEN [st |-> st, res |-> InvalidTileset(id.tileset_id)]
  ELSE IF get_tile_index(id) = NoIndex THEN [st |-> st, res |-> InvalidTile(id)]
  ELSE
    LET tile_index == get_tile_index(id)
        s == layer_builder_tile(st, c, base_index(tile_index))
    IN IF ~s.ok THEN [st |-> st, res |-> MapError]
       ELSE
         LET st2 == IF tile_index.kind = "Animated"
                      THEN Queue(s.st, AnimCmd(s.entity, tile_index))
                      ELSE s.st
             st3 == Queue(st2, [Cmd("InsertTileset", s.entity)
                                  EXCEPT !.tileset = id.tileset_id])
             st4 == IF autoTile
                      THEN apply_auto_tile(st3, id, id.tileset_id, s.entity)
                      ELSE st3
         IN [st |-> st4, res |-> Added(NoOld, s.entity, id)]

\* --------------------------------------------------------------------- Init
Init ==
  /\ autoTile \in BOOLEAN
  /\ stage = "startup"
  /\ tiles = [c \in InBounds |-> NoEntity]
  /\ world = [e \in Entities |-> Dead]
  /\ commands = [e \in Entities |-> Dead]
  /\ events = <<>>
  /\ read = 0
  /\ call = NoCall

\* ------------------------------------------------------------------ actions
\* A system of the placement stage may make a call; a call sends at most one
\* event.  (A call spawns an entity only into an empty slot, when at most one
\* id of the cell is taken, by the entity it has just despawned.)
Ready == /\ call.op = "none"
         /\ stage = "placement"
         /\ Len(events) < MaxEvents

\* The call op(id, c) or op(id, entity) ran on St and left r.st; its return
\* value is r.res
Return(op, id, c, entity, r) ==
  /\ tiles' = r.st.tiles
  /\ commands' = r.st.commands
  /\ events' = r.st.events
  /\ call' = CallOf(op, id, c, entity, r)
  /\ UNCHANGED <<autoTile, stage, world, read>>

\* The positions that the startup system fills: one position of the layer,
\* and one outside it
BuilderCoords == {TileCoord(<<0, 0>>, 0, 0), OutOfBounds}

\* The startup system calls add_to_layer on the builder of the layer
CallAddToLayer ==
  /\ call.op = "none"
  /\ stage = "startup"
  /\ \E id \in TileIds, c \in BuilderCoords :
       Return("add_to_layer", id, c, NoEntity, add_to_layer(St, id, c))

\* A system calls place
CallPlace ==
  /\ Ready
  /\ \E id \in TileIds, c \in Coords :
       Return("place", id, c, NoEntity, place(St, id, c))

\* A system calls try_place
CallTryPlace ==
  /\ Ready
  /\ \E id \in TileIds, c \in InBounds :
       Return("try_place", id, c, NoEntity, try_place(St, id, c))

\* A system calls replace
CallReplace ==
  /\ Ready
  /\ \E id \in TileIds, c \in InBounds :
       Return("replace", id, c, NoEntity, replace(St, id, c))

\* A system calls toggle_matching
CallToggleMatching ==
  /\ Ready
  /\ \E id \in TileIds, c \in InBounds :
       Return("toggle_matching", id, c, NoEntity, toggle_matching(St, id, c))

\* A system calls toggle
CallToggle ==
  /\ Ready
  /\ \E id \in TileIds, c \in InBounds :
       Return("toggle", id, c, NoEntity, toggle(St, id, c))

\* A system calls remove
CallRemove ==
  /\ Ready
  /\ \E c \in Coords :
       Return("remove", NoId, c, NoEntity, remove(St, c))

\* A system calls update, with the handle of a tile that is in the map
CallUpdate ==
  /\ Ready
  /\ \E id \in TileIds, c \in InBounds :
       /\ tiles[c] # NoEntity
       /\ Return("update", id, OutOfBounds, tiles[c], update(St, id, tiles[c]))

\* The caller has the return value and goes on
Resume ==
  /\ call.op # "none"
  /\ call' = NoCall
  /\ UNCHANGED <<autoTile, stage, tiles, world, commands, events, read>>

\* Entity handles are opaque, and no call keeps one from a stage to the next.
\* So that states that differ only in the names of the handles are one state,
\* the entity that a cell holds when the commands are applied takes the least
\* id of the cell, and the entity that had that id takes its id.
Least(c) == CHOOSE e \in Pool(c) : \A f \in Pool(c) : e <= f
CellOf(e) == CHOOSE c \in InBounds : e \in Pool(c)
Renamed(e) ==
  LET kept == tiles[CellOf(e)]
      least == Least(CellOf(e))
  IN IF kept = NoEntity \/ kept = least THEN e
     ELSE IF e = kept THEN least
     ELSE IF e = least THEN kept
     ELSE e

\* The startup system builds the layer and the startup stage ends: its
\* commands are applied, the slots of the builder are the slots of the chunk
build_layer ==
  /\ stage = "startup"
  /\ call.op = "none"
  /\ world' = [e \in Entities |-> commands[Renamed(e)]]
  /\ commands' = world'
  /\ tiles' = [c \in InBounds |->
                IF tiles[c] = NoEntity THEN NoEntity ELSE Renamed(tiles[c])]
  /\ stage' = "placement"
  /\ UNCHANGED <<autoTile, events, read, call>>

\* The stage of the placement systems ends with TilesetMapStage added after
\* TilemapStage instead of before it: the visibility phase comes next
ApplyCommands_stage_after ==
  /\ stage = "placement"
  /\ call.op = "none"
  /\ world' = [e \in Entities |-> commands[Renamed(e)]]
  /\ commands' = world'
  /\ tiles' = [c \in InBounds |->
                IF tiles[c] = NoEntity THEN NoEntity ELSE Renamed(tiles[c])]
  /\ events' = [i \in 1..Len(events) |->
                 [events[i] EXCEPT !.entity = Renamed(@)]]
  /\ stage' = "TilemapStage"
  /\ UNCHANGED <<autoTile, read, call>>

\* The stage of the placement systems ends: its commands are applied
ApplyCommands ==
  /\ stage = "placement"
  /\ call.op = "none"
  /\ world' = [e \in Entities |-> commands[Renamed(e)]]
  /\ commands' = world'
  /\ tiles' = [c \in InBounds |->
                IF tiles[c] = NoEntity THEN NoEntity ELSE Renamed(tiles[c])]
  /\ events' = [i \in 1..Len(events) |->
                 [events[i] EXCEPT !.entity = Renamed(@)]]
  /\ stage' = "TilesetMapStage"
  /\ UNCHANGED <<autoTile, read, call>>

\* TilesetMapStage: on_remove_auto_tile reads the events of the tick
on_remove_auto_tile ==
  /\ stage = "TilesetMapStage"
  /\ read' = Len(events)
  /\ stage' = "TilemapStage"
  /\ UNCHANGED <<autoTile, tiles, world, commands, events, call>>

\* TilemapStage: chunk visibility is updated and the tick ends
UpdateChunkVisibility ==
  /\ stage = "TilemapStage"
  /\ stage' = "placement"
  /\ events' = <<>>
  /\ read' = 0
  /\ UNCHANGED <<autoTile, tiles, world, commands, call>>

Next ==
  \/ CallAddToLayer
  \/ build_layer
  \/ CallPlace
  \/ CallTryPlace
  \/ CallReplace
  \/ CallToggleMatching
  \/ CallToggle
  \/ CallRemove
  \/ CallUpdate
  \/ Resume
  \/ ApplyCommands
  \/ on_remove_auto_tile
  \/ UpdateChunkVisibility

Spec == Init /\ [][Next]_vars

\* ------------------------------------------------------------------- types
TypeOK ==
  /\ autoTile \in BOOLEAN
  /\ stage \in {"startup", "placement", "TilesetMapStage", "TilemapStage"}
  /\ \A c \in InBounds : tiles[c] \in Entities \cup {NoEntity}
  /\ read \in 0..Len(events)


\* ------------------------------------------------- vocabulary of the claims
\* The identities that resolve in a registered tileset
ValidIds == {r.id : r \in TileTable}

Policies == {"place", "try_place", "replace", "toggle_matching", "toggle"}

\* In w, entity e has the render index and the tileset tag of identity id
InstalledAs(w, e, id) ==
  /\ e # NoEntity
  /\ w[e].alive
  /\ w[e].tileset = id.tileset_id
  /\ w[e].tex = base_index(get_tile_index(id))

\* Coordinate c holds a tile installed as id (its commands may still be queued)
HoldsTile(c, id) == InstalledAs(commands, tiles[c], id)

\* The same, when the call that has returned was made
HeldTile(c, id) == InstalledAs(call.pre.commands, call.pre.tiles[c], id)

\* The entity at c when the call that has returned was made
Occupant(c) == call.pre.tiles[c]

\* The call that has returned changed neither the store nor the event queue
NoEffect == St = call.pre

\* ---------------------------------------------------------------------- C1
\* No two entities are at one coordinate, in the world and in the world as the
\* queued commands leave it; the slot table and the entities agree.
OneOccupant ==
  /\ \A e1, e2 \in Entities :
       (world[e1].alive /\ world[e2].alive /\ world[e1].pos = world[e2].pos)
         => e1 = e2
  /\ \A e1, e2 \in Entities :
       ( /\ commands[e1].alive /\ commands[e2].alive
         /\ commands[e1].pos = commands[e2].pos ) => e1 = e2
  /\ \A c \in InBounds :
       tiles[c] # NoEntity
         => commands[tiles[c]].alive /\ commands[tiles[c]].pos = c
  /\ \A e \in Entities :
       commands[e].alive
         => commands[e].pos \in InBounds /\ tiles[commands[e].pos] = e

\* C1: after every call each coordinate has at most one occupant entity; and
\* an install that finds an occupant has removed it in the same call: the
\* coordinate holds another entity, the occupant is despawned and the call
\* names it as the displaced tile.
C1_AtMostOneOccupant ==
  /\ OneOccupant
  /\ ( /\ call.op \in Policies
       /\ call.pos \in InBounds
       /\ get_existing(call.pre, call.id, call.pos).found
       /\ call.res.kind = "Added" )
     => /\ tiles[call.pos] \notin {NoEntity, Occupant(call.pos)}
        /\ ~commands[Occupant(call.pos)].alive
        /\ call.res.old_tile.present
        /\ call.res.old_tile.entity = Occupant(call.pos)

\* An install has found and displaced the occupant of its coordinate
C1_Witness ==
  /\ call.op \in Policies
  /\ call.res.kind = "Added"
  /\ call.pos \in InBounds
  /\ get_existing(call.pre, call.id, call.pos).found
  /\ world[Occupant(call.pos)].alive
  /\ tiles[call.pos] # NoEntity

C3_UnknownTileset_Stated ==
  ( /\ call.op \in Policies
    /\ ~get_tileset(call.id) )
  => /\ call.res = InvalidTileset(call.id.tileset_id)
     /\ NoEffect

\* ---------------------------------------------------------------------- C4
\* C4 as stated: remove on a coordinate that holds no entity returns Ok(()),
\* changes nothing and sends no event, with and without the auto-tile feature.
C4_RemoveIdempotent_Stated ==
  ( /\ call.op = "remove"
    /\ call.pos \in InBounds
    /\ Occupant(call.pos) = NoEntity )
  => /\ call.res = OkUnit
     /\ NoEffect

\* ---------------------------------------------------------------------- C5
\* C5 as stated: try_place(B, c) on a coordinate that holds the tile installed
\* as A fails with TileAlreadyExists{new: B, existing: Some(A), pos: c} and
\* leaves the occupant as it was.
C5_TryPlaceRefuses_Stated ==
  \A a \in ValidIds :
    ( /\ call.op = "try_place"
      /\ call.id \in ValidIds
      /\ HeldTile(call.pos, a) )
    => /\ call.res = TileAlreadyExists(call.id, a, call.pos)
       /\ NoEffect

\* ---------------------------------------------------------------------- C6
\* C6 as stated: toggle(A, c) installs A when c is empty, and when c holds the
\* tile that toggle installed as A it removes it, returns
\* Removed{displaced: Some((e, Some(A)))} and leaves c empty.
C6_ToggleRoundTrip_Stated ==
  ( /\ call.op = "toggle"
    /\ call.id \in ValidIds )
  => /\ Occupant(call.pos) = NoEntity
          => call.res.kind = "Added" /\ HoldsTile(call.pos, call.id)
     /\ HeldTile(call.pos, call.id)
          => /\ call.res = Removed(OldTile(Occupant(call.pos), call.id))
             /\ tiles[call.pos] = NoEntity

\* ---------------------------------------------------------------------- C7
\* C7 as stated: replace(B, c) on a coordinate that holds a tile installed as
\* A fails with TileAlreadyExists and leaves A when A and B are group-equal,
\* and otherwise succeeds with Added naming the entity of A as displaced and
\* leaves c holding B; on an empty coordinate it installs.
C7_ReplaceGate_Stated ==
  ( /\ call.op = "replace"
    /\ call.id \in ValidIds )
  => /\ \A a \in ValidIds :
          HeldTile(call.pos, a)
            => IF eq_tile_group(a, call.id)
                 THEN /\ call.res.err = "TileAlreadyExists"
                      /\ NoEffect
                 ELSE /\ call.res.kind = "Added"
                      /\ call.res.old_tile.present
                      /\ call.res.old_tile.entity = Occupant(call.pos)
                      /\ HoldsTile(call.pos, call.id)
     /\ Occupant(call.pos) = NoEntity
          => call.res.kind = "Added" /\ HoldsTile(call.pos, call.id)

\* ---------------------------------------------------------------------- C8
\* C8 as stated: toggle_matching(B, c) removes the occupant and returns
\* Removed naming it when c holds a tile group-equal to B, fails with
\* TileAlreadyExists and changes nothing when c holds another tile, and
\* installs B with displaced = None when c is empty.
C8_ToggleMatching_Stated ==
  ( /\ call.op = "toggle_matching"
    /\ call.id \in ValidIds )
  => /\ \A a \in ValidIds :
          HeldTile(call.pos, a)
            => IF eq_tile_group(a, call.id)
                 THEN /\ call.res = Removed(OldTile(Occupant(call.pos), a))
                      /\ tiles[call.pos] = NoEntity
                 ELSE /\ call.res.err = "TileAlreadyExists"
                      /\ NoEffect
     /\ Occupant(call.pos) = NoEntity
          => /\ call.res = Added(NoOld, tiles[call.pos], call.id)
             /\ HoldsTile(call.pos, call.id)

\* ---------------------------------------------------------------------- C9
\* C9: a call that takes an entity out of its coordinate has despawned it;
\* when the entity has an auto-tile link in the world the call has sent
\* exactly one event, with the handle, the position, the parent and the link
\* the entity still has in the world; otherwise it has sent none.
C9_DetachBeforeDelete ==
  \A c \in InBounds :
    LET e == Occupant(c) IN
    ( /\ call.op # "none"
      /\ e # NoEntity
      /\ tiles[c] # e )
    => /\ ~commands[e].alive
       /\ IF world[e].alive /\ world[e].auto.on
            THEN /\ world[e].pos = c
                 /\ events = Append(call.pre.events,
                                    RemoveAutoTileEvent(e, c, TileParent(c),
                                                        world[e].auto))
            ELSE events = call.pre.events

\* A call has removed an entity that has an auto-tile link in the world
C9_Witness ==
  \E c \in InBounds :
    /\ call.op \in {"remove", "toggle", "toggle_matching", "place"}
    /\ Occupant(c) # NoEntity
    /\ tiles[c] # Occupant(c)
    /\ world[Occupant(c)].alive
    /\ world[Occupant(c)].auto.on
    /\ Len(events) = Len(call.pre.events) + 1

\* --------------------------------------------------------------------- C10
\* C10 as stated: in one tick at most one removal event is sent for an entity
C10_OneEventPerEntity_Stated ==
  \A i, j \in 1..Len(events) :
    events[i].entity = events[j].entity => i = j

\* --------------------------------------------------------------------- C11
\* C11: the removal events of a tick are handled only after the placement
\* stage has ended and its commands are applied, never while calls of the
\* tick can still be made, and all of them are handled when the stage of the
\* chunk visibility update starts.
C11_MutateThenReact ==
  /\ stage \in {"startup", "placement"} => read = 0
  /\ read > 0 => stage = "TilemapStage" /\ call.op = "none"
  /\ stage \in {"TilesetMapStage", "TilemapStage"} => world = commands
  /\ stage = "TilemapStage" => read = Len(events)

\* The events that the calls of the tick sent were handled before the
\* visibility phase
C11_Witness ==
  /\ stage = "TilemapStage"
  /\ Len(events) > 0
  /\ read = Len(events)

\* --------------------------------------------------------------------- C12
\* The entity that an install or an update has written
Written == IF call.op = "update" THEN call.entity ELSE call.res.entity

\* The call that has returned has installed a tile or updated an entity
HasWritten ==
  \/ call.op \in Policies \cup {"add_to_layer"} /\ call.res.kind = "Added"
  \/ call.op = "update" /\ call.res.kind = "Ok"

\* The animation parameters that go with an index
AnimOf(index) ==
  IF index.kind = "Animated"
    THEN GPUAnimated(index.start, index.end, index.speed)
    ELSE NoAnim

\* The identity that entity e has in w: the one of its tileset and its index
IdentityOf(w, e) == get_tile_id(w[e].tileset, w[e].tex)

\* In w every entity has the animation parameters of its identity
AnimationsMatch(w) ==
  \A e \in Entities :
    w[e].alive => w[e].anim = AnimOf(get_tile_index(IdentityOf(w, e)))

\* C12 as stated: the entity that an install or update has written has the
\* base index of the identity and its animation parameters, none when the
\* index is Standard; and in every state an entity has animation parameters
\* iff its identity resolves to an Animated index.
C12_AnimatedTransition_Stated ==
  /\ HasWritten
       => /\ commands[Written].tex = base_index(get_tile_index(call.id))
          /\ commands[Written].anim = AnimOf(get_tile_index(call.id))
  /\ AnimationsMatch(world)
  /\ AnimationsMatch(commands)

\* --------------------------------------------------------------------- C13
\* A policy was called with a registered identity on a coordinate whose
\* occupant is in the world and is tagged with another tileset
CrossTileset ==
  /\ call.op \in Policies
  /\ call.id \in ValidIds
  /\ call.pos \in InBounds
  /\ Occupant(call.pos) # NoEntity
  /\ world[Occupant(call.pos)].alive
  /\ world[Occupant(call.pos)].tileset # call.id.tileset_id

\* C13 as stated: the occupant of another tileset than the new identity's is
\* never resolved, whatever its texture index: the result carries no identity
\* for it, replace does not fail with TileAlreadyExists and toggle_matching
\* does not remove.
C13_CrossTilesetUnresolved_Stated ==
  CrossTileset
    => /\ get_existing(call.pre, call.id, call.pos).id = NoId
       /\ ~call.res.old_tile.has_id
       /\ ~call.res.existing.has_id
       /\ call.op = "replace" => call.res.err # "TileAlreadyExists"
       /\ call.op = "toggle_matching" => call.res.kind # "Removed"

\* --------------------------------------------------------------------- C14
\* C14 as stated: on a coordinate that holds an entity, whichever call put it
\* there, try_place fails with TileAlreadyExists and changes nothing, toggle
\* removes the entity and returns Removed naming it, and an install by place
\* or replace despawns the entity and names it as displaced.
C14_OccupiedNeverEmpty_Stated ==
  ( /\ call.op \in Policies
    /\ call.id \in ValidIds
    /\ call.pos \in InBounds
    /\ Occupant(call.pos) # NoEntity )
  => /\ call.op = "try_place"
          => call.res.err = "TileAlreadyExists" /\ NoEffect
     /\ call.op = "toggle"
          => /\ call.res.kind = "Removed"
             /\ call.res.old_tile.entity = Occupant(call.pos)
             /\ tiles[call.pos] = NoEntity
     /\ (call.op \in {"place", "replace"} /\ call.res.kind = "Added")
          => /\ call.res.old_tile.present
             /\ call.res.old_tile.entity = Occupant(call.pos)
             /\ ~commands[Occupant(call.pos)].alive

\* --------------------------------------------------------------------- C15
\* The auto-tile link that goes with an identity
LinkOf(id) ==
  IF autoTile /\ get_tile_data(id)
    THEN AutoTileId(id.group_id, id.tileset_id)
    ELSE NoAuto

\* In w every entity has the link of its identity
LinksMatch(w) ==
  \A e \in Entities : w[e].alive => w[e].auto = LinkOf(IdentityOf(w, e))

\* The entities that the call that has returned is about
Targets ==
  IF call.op = "update" THEN {call.entity}
  ELSE IF call.pos \in InBounds THEN {Occupant(call.pos), tiles[call.pos]}
  ELSE {}

\* C15: every entity has an auto-tile link iff the identity it was last
\* installed or updated with is an auto tile, with the group and the tileset
\* of that identity (without the auto-tile feature no entity has a link), as
\* the calls leave the entities and in the world; a call changes the link of
\* no entity but the one it is about.
C15_AutoLinkStateMachine ==
  /\ LinksMatch(commands)
  /\ stage \notin {"startup", "placement"} => LinksMatch(world)
  /\ \A e \in Entities :
       (call.op # "none" /\ commands[e].auto # call.pre.commands[e].auto)
         => e \in Targets

\* An update has taken the link off an entity that had one
C15_Witness ==
  /\ call.op = "update"
  /\ world[call.entity].auto.on
  /\ commands[call.entity].alive
  /\ ~commands[call.entity].auto.on

\* --------------------------------------------------------------------- C16
\* C16: update leaves every entity at its coordinate; an update that succeeds
\* on an entity that has an auto-tile link, to an identity that is no auto
\* tile, takes the link off and sends one event with the entity, its position,
\* its parent and the link; any other update sends no event; an update that
\* fails changes nothing.
C16_Update ==
  call.op = "update"
    => LET e == call.entity IN
       /\ tiles = call.pre.tiles
       /\ \A f \in Entities :
            /\ commands[f].alive = call.pre.commands[f].alive
            /\ commands[f].pos = call.pre.commands[f].pos
       /\ IsErr(call.res) => NoEffect
       /\ call.res.kind = "Ok"
            => IF world[e].alive /\ world[e].auto.on /\ ~get_tile_data(call.id)
                 THEN /\ ~commands[e].auto.on
                      /\ events =
                           Append(call.pre.events,
                                  RemoveAutoTileEvent(e, world[e].pos,
                                                      TileParent(world[e].pos),
                                                      world[e].auto))
                 ELSE events = call.pre.events

\* An update to an identity that is no auto tile has sent the event of an
\* entity that had a link
C16_Witness ==
  /\ call.op = "update"
  /\ call.res.kind = "Ok"
  /\ world[call.entity].auto.on
  /\ ~get_tile_data(call.id)
  /\ Len(events) = Len(call.pre.events) + 1

\* --------------------------------------------------------------------- C17
\* The identity that the occupant of c has in the tileset of the requested
\* identity, by its render index in the world
Resolved(c) ==
  IF get_tileset(call.id)
    THEN get_tile_id(call.id.tileset_id, world[Occupant(c)].tex)
    ELSE NoId

\* C17: a try_place, replace or toggle_matching that returns
\* TileAlreadyExists{new, existing, pos} names the requested identity as new,
\* the requested position as pos and the resolved identity of the occupant as
\* existing, and has changed neither the entities nor the event queue.
C17_TileAlreadyExistsFrame ==
  ( /\ call.op \in {"try_place", "replace", "toggle_matching"}
    /\ call.res.err = "TileAlreadyExists" )
  => /\ Occupant(call.pos) # NoEntity
     /\ world[Occupant(call.pos)].alive
     /\ call.res = TileAlreadyExists(call.id, Resolved(call.pos), call.pos)
     /\ NoEffect

\* try_place was refused by an occupant of another identity
C17_Witness ==
  /\ call.op = "try_place"
  /\ call.res.err = "TileAlreadyExists"
  /\ call.res.existing.has_id
  /\ call.res.existing.id # call.id

\* --------------------------------------------------------------------- C18
\* C18 as stated: a policy call that returns Added{displaced, placed: (e, id)}
\* names the requested identity and the entity that the coordinate holds,
\* which has the base index and the tileset of the identity, and displaced
\* names the entity that was at the coordinate (None iff it was empty); a call
\* that returns Removed{displaced} leaves the coordinate empty and names the
\* entity that was there.
C18_OutcomeFaithful_Stated ==
  call.op \in Policies
    => /\ call.res.kind = "Added"
            => /\ call.res.id = call.id
               /\ call.res.entity = tiles[call.pos]
               /\ HoldsTile(call.pos, call.id)
               /\ IF Occupant(call.pos) = NoEntity
                    THEN call.res.old_tile = NoOld
                    ELSE /\ call.res.old_tile.present
                         /\ call.res.old_tile.entity = Occupant(call.pos)
       /\ call.res.kind = "Removed"
            => /\ tiles[call.pos] = NoEntity
               /\ call.res.old_tile.present
               /\ call.res.old_tile.entity = Occupant(call.pos)

\* --------------------------------------------------------------------- C19
\* The call that has returned is an install path: place, replace that is not
\* blocked, add_to_layer, update, or try_place, toggle or toggle_matching on
\* a coordinate without an occupant in the world
InstallPath ==
  \/ call.op \in {"place", "add_to_layer", "update"}
  \/ /\ call.op = "replace"
     /\ call.res.err # "TileAlreadyExists"
  \/ /\ call.op \in {"try_place", "toggle", "toggle_matching"}
     /\ \/ Occupant(call.pos) = NoEntity
        \/ ~world[Occupant(call.pos)].alive

\* C19: an install path called with an identity of a registered tileset that
\* does not resolve in it fails with InvalidTile(identity) and changes
\* nothing: no occupant removed, no entity spawned or rewritten, no event.
C19_InvalidTileBeforeMutation ==
  ( /\ InstallPath
    /\ get_tileset(call.id)
    /\ select_tile_by_id(call.id) = {} )
  => /\ call.res = InvalidTile(call.id)
     /\ NoEffect

\* place or replace of an identity that does not resolve, on a coordinate
\* whose occupant is in the world
C19_Witness ==
  /\ call.op \in {"place", "replace"}
  /\ call.res.err = "InvalidTile"
  /\ call.pos \in InBounds
  /\ Occupant(call.pos) # NoEntity
  /\ world[Occupant(call.pos)].alive

C21_Locality ==
  call.op \in Policies \cup {"remove"}
    => /\ \A c \in InBounds \ {call.pos} : tiles[c] = call.pre.tiles[c]
       /\ \A e \in Entities \ Targets :
            commands[e] = call.pre.commands[e]
       /\ Len(events) >= Len(call.pre.events)
       /\ \A i \in 1..Len(events) :
            IF i <= Len(call.pre.events)
              THEN events[i] = call.pre.events[i]
              ELSE /\ call.pos \in InBounds
                   /\ events[i].entity = Occupant(call.pos)
                   /\ events[i].pos = call.pos

\* A call has removed an auto tile and sent its event while the other
\* coordinate holds a tile
C21_Witness ==
  /\ call.op \in Policies \cup {"remove"}
  /\ call.pos \in InBounds
  /\ tiles[call.pos] # Occupant(call.pos)
  /\ Len(events) = Len(call.pre.events) + 1
  /\ \E c \in InBounds \ {call.pos} :
       tiles[c] # NoEntity /\ world[tiles[c]].alive
====
